---- MODULE Spec2Model ----
(***************************************************************************)
(* Model of plottr/apps/appmanager.py: the AppManager (process table, port *)
(* allocation, ping/message round trips, teardown), its ProcessMonitor     *)
(* thread, and, per launched app process, the App dispatcher with its      *)
(* AppServer listener thread.                                              *)
(*                                                                         *)
(* Threads and queued signals.  Qt delivers a signal that crosses threads  *)
(* as an event in the receiving thread's queue; the slot runs when that    *)
(* thread next processes events (its event loop, or a qtsleep).  Each such *)
(* connection is a queue variable below, each slot an action.              *)
(***************************************************************************)
EXTENDS Integers, Sequences, FiniteSets, TLC

\* ------------------------------------------------------------------ bounds
\* Facade calls (launchApp, pingApp, message, closeEvent) made in one run.
MaxCalls == 4
\* The same, in the runs that follow one app through its messages.
MaxAppCalls == 3

\* ------------------------------------------------------------- constants
\* AppManager.__init__(initialPort=12345)
initialPort == 12345

\* QtCore.QProcess.ProcessState as ProcessMonitor.run reads it (state == 0).
NotRunning == 0
Starting == NotRunning + 1
Running == NotRunning + 2

\* ---------------------------------------------------------------- inputs
\* App ids handed to the facade (IdType = Union[int, str]).
Ids == {"a", "b"}

\* One launch creates one QProcess and one zmq.REQ socket; launch number k
\* names both ("process k", "socket k") and the app process itself.
Insts == 1..MaxCalls

\* Data sets an app's flowchart can be fed.
Data == {"d1", "d2"}

\* The nodes of the app's flowchart (fc.nodes()), and names that are none.
NodeNames == {"node"}
FlowchartNames == {"", "fc", "flowchart"}
TargetNames == FlowchartNames \cup NodeNames \cup {"nosuch"}

\* "opt" is an attribute setattr can set on a node, "readonly" one it cannot.
TargetProperties == {"setInput", "getOutput", "opt", "readonly"}

\* Values: a dict with the flowchart's input terminal, a dict with a key that
\* is no terminal, and an object that is no mapping.
Values == {<<"dict", "dataIn", d>> : d \in Data}
          \cup {<<"dict", "bogus", "d1">>, <<"object", "", "d1">>}

\* What travels on a REQ/REP pair: the string 'ping' or a request triple one
\* way, any pickled object the other way.
NoMsg == <<>>
Ping == <<"str", "ping">>
Request(targetName, targetProperty, value) ==
    <<"tuple", targetName, targetProperty, value>>
Requests == {Request(n, p, v) : n \in TargetNames, p \in TargetProperties, v \in Values}

\* Python objects that are replies or return values.
None == <<"None", "">>
True == <<"bool", "True">>
False == <<"bool", "False">>
Pong == <<"str", "pong">>
Exc(type) == <<"Exception", type>>
OutputValues(d) == <<"dataOut", d>>
\* How a facade call ended when it did not return: still blocked, or raised.
Blocked == <<"blocked", "">>
Raised(type) == <<"raised", type>>

IsException(obj) == obj[1] = "Exception"

VARIABLES
    \* ---- AppManager (main thread of the managing process)
    processes,      \* self.processes: Id -> [process, port, socket]
    context,        \* self.context: "open" | "terminated"
    poller,         \* sockets registered with self.poller
    procmon,        \* self.procmon: "set" | "None"
    procmonThread,  \* self.procmonThread: "set" | "None"
    mainpc,         \* "idle" | "pingApp" | "message": where the main thread is
    mainSock,       \* the socket the main thread is blocked on (0: none)
    mainReq,        \* what it sent on that socket (NoMsg: nothing)
    lastCall,       \* the last facade call: [op, Id, val]
    ncalls,         \* facade calls made so far
    nextInst,       \* the number the next launch gets
    slotErrors,     \* KeyErrors raised by onProcessEneded
    \* ---- ProcessMonitor (its own thread)
    monProcesses,   \* ProcessMonitor.processes: Id -> process
    checking,       \* ProcessMonitor.checking
    monThread,      \* "running" | "finished"
    newProcessQ,    \* queued AppManager.newProcess signals <<Id, process>>
    termQ,          \* queued ProcessMonitor.processTerminated signals
    \* ---- per launch: the QProcess, the REQ socket, the wire
    pstate,         \* QProcess.state() of process k
    sockOpen,       \* socket k is open
    procCloses,     \* calls of process.close() on process k
    sockCloses,     \* calls of socket.close(1) on socket k
    ctxDestroys,    \* calls of self.context.destroy(1)
    wireReq,        \* request sent on socket k, not yet received by the app
    wireResp,       \* reply sent by app k, not yet received by the manager
    \* ---- per launch: the app process (App, AppServer)
    apppc,          \* "none" | "run" | "joining" | "gone": the App's main thread
    srvpc,          \* "none" | "poll" | "waitReply" | "closed": AppServer.run
    running,        \* AppServer.running
    reply,          \* AppServer.reply
    interruption,   \* serverThread.isInterruptionRequested()
    msgQ,           \* queued AppServer.messageReceived signal
    replyQ,         \* queued App.replyReady signal
    quitQ,          \* queued App.endProcess signal
    fcInput,        \* what the flowchart's input was last set to
    nodeAttrs       \* attributes set on the flowchart's node

mgrVars == <<processes, context, poller, procmon, procmonThread, mainpc, mainSock, mainReq,
             lastCall, ncalls, nextInst, slotErrors>>
monVars == <<monProcesses, checking, monThread, newProcessQ, termQ>>
hdlVars == <<pstate, sockOpen, procCloses, sockCloses, ctxDestroys, wireReq, wireResp>>
appVars == <<apppc, srvpc, running, reply, interruption, msgQ, replyQ, quitQ,
             fcInput, nodeAttrs>>
vars == <<mgrVars, monVars, hdlVars, appVars>>

\* ------------------------------------------------------------------ Init
\* AppManager.__init__: empty table, fresh context, monitor thread started.
\* An empty Python dict.
EmptyDict == [i \in {} |-> 0]

NoCall == [op |-> "none", Id |-> "", val |-> None]
Init ==
    /\ processes = EmptyDict
    /\ context = "open"
    /\ poller = {}
    /\ procmon = "set"
    /\ procmonThread = "set"
    /\ mainpc = "idle"
    /\ mainSock = 0
    /\ mainReq = NoMsg
    /\ lastCall = NoCall
    /\ ncalls = 0
    /\ nextInst = 1
    /\ slotErrors = 0
    /\ monProcesses = EmptyDict
    /\ checking = TRUE
    /\ monThread = "running"
    /\ newProcessQ = <<>>
    /\ termQ = <<>>
    /\ pstate = [k \in Insts |-> NotRunning]
    /\ sockOpen = [k \in Insts |-> FALSE]
    /\ procCloses = [k \in Insts |-> 0]
    /\ sockCloses = [k \in Insts |-> 0]
    /\ ctxDestroys = 0
    /\ wireReq = [k \in Insts |-> NoMsg]
    /\ wireResp = [k \in Insts |-> NoMsg]
    /\ apppc = [k \in Insts |-> "none"]
    /\ srvpc = [k \in Insts |-> "none"]
    /\ running = [k \in Insts |-> FALSE]
    /\ reply = [k \in Insts |-> None]
    /\ interruption = [k \in Insts |-> FALSE]
    /\ msgQ = [k \in Insts |-> NoMsg]
    /\ replyQ = [k \in Insts |-> <<>>]
    /\ quitQ = [k \in Insts |-> FALSE]
    /\ fcInput = [k \in Insts |-> "none"]
    /\ nodeAttrs = [k \in Insts |-> EmptyDict]

\* ------------------------------------------------------------ AppManager
\* usedPorts = [data['port'] for data in self.processes.values()]
UsedPorts(table) == {table[i].port : i \in DOMAIN table}

\* A port search that counts the live apps instead of probing for a free port.
FirstFreePort_count(port, usedPorts) == port + Cardinality(usedPorts)

\* port = self.initialPort; while port in usedPorts: port += 1
RECURSIVE FirstFreePort(_, _)
FirstFreePort(port, usedPorts) ==
    IF port \in usedPorts THEN FirstFreePort(port + 1, usedPorts) ELSE port

\* self.processes[Id] = {...} and del self.processes[Id] on a Python dict
DictSet(d, key, val) == [i \in DOMAIN d \cup {key} |-> IF i = key THEN val ELSE d[i]]
DictDel(d, key) == [i \in DOMAIN d \ {key} |-> d[i]]

\* A facade call is entered: lastCall records it and how it ended so far.
Returned(op, Id, val) ==
    /\ lastCall' = [op |-> op, Id |-> Id, val |-> val]
    /\ ncalls' = ncalls + 1

\* The main thread is free to make a facade call.
CanCall == mainpc = "idle" /\ ncalls < MaxCalls

\* A launch that tells a failed start from a slow one: when the process is
\* not running after waitForStarted it inserts nothing and returns False.
LaunchNew_checkStarted(Id) ==
    LET port == FirstFreePort(initialPort, UsedPorts(processes))
        k == nextInst
    IN  \E st \in {NotRunning, Starting, Running} :
          /\ pstate' = [pstate EXCEPT ![k] = st]
          /\ nextInst' = k + 1
          /\ IF context = "terminated"
             THEN /\ Returned("launchApp", Id, Raised("ZMQError"))
                  /\ UNCHANGED <<processes, poller, sockOpen, newProcessQ>>
             ELSE IF st = NotRunning
             THEN /\ Returned("launchApp", Id, False)
                  /\ UNCHANGED <<processes, poller, sockOpen, newProcessQ>>
             ELSE /\ sockOpen' = [sockOpen EXCEPT ![k] = TRUE]
                  /\ poller' = poller \cup {k}
                  /\ processes' = DictSet(processes, Id,
                          [process |-> k, port |-> port, socket |-> k])
                  /\ newProcessQ' = Append(newProcessQ, <<Id, k>>)
                  /\ Returned("launchApp", Id, True)

\* AppManager.launchApp, the branch of "if Id not in self.processes"
LaunchNew(Id) ==
    LET port == FirstFreePort(initialPort, UsedPorts(processes))
        k == nextInst
    IN  \* process.start(...); process.waitForStarted(100): the process has
        \* started, is still starting, or failed to start
        \E st \in {NotRunning, Starting, Running} :
          /\ pstate' = [pstate EXCEPT ![k] = st]
          /\ nextInst' = k + 1
          /\ IF context = "terminated"
             THEN \* self.context.socket(zmq.REQ) raises on a terminated context
                  /\ Returned("launchApp", Id, Raised("ZMQError"))
                  /\ UNCHANGED <<processes, poller, sockOpen, newProcessQ>>
             ELSE /\ sockOpen' = [sockOpen EXCEPT ![k] = TRUE]
                  /\ poller' = poller \cup {k}
                  /\ processes' = DictSet(processes, Id,
                          [process |-> k, port |-> port, socket |-> k])
                  /\ newProcessQ' = Append(newProcessQ, <<Id, k>>)
                  /\ Returned("launchApp", Id, True)

\* AppManager.launchApp, past the if: logger.warning(...); return False
LaunchRejected(Id) ==
    /\ Returned("launchApp", Id, False)
    /\ UNCHANGED <<processes, poller, sockOpen, newProcessQ, pstate, nextInst>>

\* What no branch of launchApp touches.
LaunchFrame ==
    /\ UNCHANGED <<context, procmon, procmonThread, mainpc, mainSock, mainReq, slotErrors>>
    /\ UNCHANGED <<monProcesses, checking, monThread, termQ>>
    /\ UNCHANGED <<procCloses, sockCloses, ctxDestroys, wireReq, wireResp>>
    /\ UNCHANGED appVars

\* A launchApp that does not look the id up first.
launchApp_noCheck(Id) ==
    /\ CanCall
    /\ LaunchNew(Id)
    /\ LaunchFrame

\* AppManager.launchApp(Id, module, func, *args)
launchApp(Id) ==
    /\ CanCall
    /\ IF Id \notin DOMAIN processes THEN LaunchNew(Id) ELSE LaunchRejected(Id)
    /\ LaunchFrame

\* A handler that takes the notification and leaves the table as it is.
onProcessEneded_keep ==
    /\ mainpc = "idle"
    /\ termQ # <<>>
    /\ termQ' = Tail(termQ)
    /\ UNCHANGED <<mgrVars, monProcesses, checking, monThread, newProcessQ>>
    /\ UNCHANGED <<hdlVars, appVars>>

\* AppManager.onProcessEneded(Id): slot of ProcessMonitor.processTerminated, run
\* by the main thread's event loop.
onProcessEneded ==
    /\ mainpc = "idle"
    /\ termQ # <<>>
    /\ LET Id == Head(termQ)
       IN  /\ termQ' = Tail(termQ)
           /\ IF Id \in DOMAIN processes
              THEN processes' = DictDel(processes, Id) /\ UNCHANGED slotErrors
              ELSE \* del of a missing key raises KeyError
                   slotErrors' = slotErrors + 1 /\ UNCHANGED processes
    /\ UNCHANGED <<context, poller, procmon, procmonThread, mainpc, mainSock, mainReq,
                   lastCall, ncalls, nextInst>>
    /\ UNCHANGED <<monProcesses, checking, monThread, newProcessQ>>
    /\ UNCHANGED hdlVars
    /\ UNCHANGED appVars

\* A pingApp that indexes the table without looking the id up first.
PingUnknown_keyError(Id) ==
    /\ Returned("pingApp", Id, Raised("KeyError"))
    /\ UNCHANGED <<mainpc, mainSock, mainReq, wireReq>>

\* AppManager.pingApp, the branch of "if Id not in self.processes"
PingUnknown(Id) ==
    /\ Returned("pingApp", Id, False)
    /\ UNCHANGED <<mainpc, mainSock, mainReq, wireReq>>

\* AppManager.pingApp(Id), up to socket.recv_pyobj()
pingApp(Id) ==
    /\ CanCall
    /\ IF Id \notin DOMAIN processes
       THEN PingUnknown(Id)
       ELSE LET socket == processes[Id].socket
            IN  IF sockOpen[socket]
                THEN /\ wireReq' = [wireReq EXCEPT ![socket] = Ping]
                     /\ mainpc' = "pingApp"
                     /\ mainSock' = socket
                     /\ mainReq' = Ping
                     /\ Returned("pingApp", Id, Blocked)
                ELSE \* send_pyobj on a closed socket raises
                     /\ Returned("pingApp", Id, Raised("ZMQError"))
                     /\ UNCHANGED <<mainpc, mainSock, mainReq, wireReq>>
    /\ UNCHANGED <<processes, context, poller, procmon, procmonThread, nextInst, slotErrors>>
    /\ UNCHANGED monVars
    /\ UNCHANGED <<pstate, sockOpen, procCloses, sockCloses, ctxDestroys, wireResp>>
    /\ UNCHANGED appVars

\* AppManager.pingApp from reply = socket.recv_pyobj() on
pingApp_return ==
    /\ mainpc = "pingApp"
    /\ wireResp[mainSock] # NoMsg
    /\ lastCall' = [lastCall EXCEPT !.val =
                        IF wireResp[mainSock] = Pong THEN True ELSE False]
    /\ wireResp' = [wireResp EXCEPT ![mainSock] = NoMsg]
    /\ mainpc' = "idle"
    /\ mainSock' = 0
    /\ mainReq' = NoMsg
    /\ UNCHANGED <<processes, context, poller, procmon, procmonThread, ncalls,
                   nextInst, slotErrors>>
    /\ UNCHANGED monVars
    /\ UNCHANGED <<pstate, sockOpen, procCloses, sockCloses, ctxDestroys, wireReq>>
    /\ UNCHANGED appVars

\* A message that treats an unknown id the way pingApp does.
MessageUnknown_false(Id, targetName, targetProperty, value) ==
    /\ Returned("message", Id, False)
    /\ UNCHANGED <<mainpc, mainSock, mainReq, wireReq>>

\* AppManager.message, the branch of "if Id not in self.processes"
MessageUnknown(Id, targetName, targetProperty, value) ==
    /\ Returned("message", Id, Raised("ValueError"))
    /\ UNCHANGED <<mainpc, mainSock, mainReq, wireReq>>

\* AppManager.message(Id, targetName, targetProperty, value), up to recv_pyobj()
message(Id, targetName, targetProperty, value) ==
    /\ CanCall
    /\ IF Id \notin DOMAIN processes
       THEN MessageUnknown(Id, targetName, targetProperty, value)
       ELSE LET socket == processes[Id].socket
            IN  IF sockOpen[socket]
                THEN /\ wireReq' = [wireReq EXCEPT ![socket] =
                                        Request(targetName, targetProperty, value)]
                     /\ mainpc' = "message"
                     /\ mainSock' = socket
                     /\ mainReq' = Request(targetName, targetProperty, value)
                     /\ Returned("message", Id, Blocked)
                ELSE /\ Returned("message", Id, Raised("ZMQError"))
                     /\ UNCHANGED <<mainpc, mainSock, mainReq, wireReq>>
    /\ UNCHANGED <<processes, context, poller, procmon, procmonThread, nextInst, slotErrors>>
    /\ UNCHANGED monVars
    /\ UNCHANGED <<pstate, sockOpen, procCloses, sockCloses, ctxDestroys, wireResp>>
    /\ UNCHANGED appVars

\* AppManager.message from response = socket.recv_pyobj() on: an exception
\* that came back is logged and returned like any other response.
message_return ==
    /\ mainpc = "message"
    /\ wireResp[mainSock] # NoMsg
    /\ lastCall' = [lastCall EXCEPT !.val = wireResp[mainSock]]
    /\ wireResp' = [wireResp EXCEPT ![mainSock] = NoMsg]
    /\ mainpc' = "idle"
    /\ mainSock' = 0
    /\ mainReq' = NoMsg
    /\ UNCHANGED <<processes, context, poller, procmon, procmonThread, ncalls,
                   nextInst, slotErrors>>
    /\ UNCHANGED monVars
    /\ UNCHANGED <<pstate, sockOpen, procCloses, sockCloses, ctxDestroys, wireReq>>
    /\ UNCHANGED appVars

\* The state of an app process that does not exist (any more).
AppsGone(S) ==
    /\ apppc' = [k \in Insts |-> IF k \in S THEN "gone" ELSE apppc[k]]
    /\ srvpc' = [k \in Insts |-> IF k \in S THEN "gone" ELSE srvpc[k]]
    /\ running' = [k \in Insts |-> IF k \in S THEN FALSE ELSE running[k]]
    /\ reply' = [k \in Insts |-> IF k \in S THEN None ELSE reply[k]]
    /\ interruption' = [k \in Insts |-> IF k \in S THEN FALSE ELSE interruption[k]]
    /\ msgQ' = [k \in Insts |-> IF k \in S THEN NoMsg ELSE msgQ[k]]
    /\ replyQ' = [k \in Insts |-> IF k \in S THEN <<>> ELSE replyQ[k]]
    /\ quitQ' = [k \in Insts |-> IF k \in S THEN FALSE ELSE quitQ[k]]
    /\ fcInput' = [k \in Insts |-> IF k \in S THEN "none" ELSE fcInput[k]]
    /\ nodeAttrs' = [k \in Insts |-> IF k \in S THEN EmptyDict ELSE nodeAttrs[k]]

\* ProcessMonitor.quit()
ProcessMonitor_quit == checking' = FALSE

\* A teardown that closes everything and leaves the monitor running.
closeEvent_noStop ==
    /\ CanCall
    /\ LET procs == {processes[i].process : i \in DOMAIN processes}
           socks == {processes[i].socket : i \in DOMAIN processes}
       IN  /\ UNCHANGED <<checking, procmon, monThread, procmonThread>>
           /\ procCloses' = [k \in Insts |-> procCloses[k] + IF k \in procs THEN 1 ELSE 0]
           /\ pstate' = [k \in Insts |-> IF k \in procs THEN NotRunning ELSE pstate[k]]
           /\ AppsGone({k \in procs : pstate[k] # NotRunning})
           /\ sockCloses' = [k \in Insts |-> sockCloses[k] + IF k \in socks THEN 1 ELSE 0]
           /\ sockOpen' = [k \in Insts |-> FALSE]
           /\ wireReq' = [k \in Insts |-> NoMsg]
           /\ wireResp' = [k \in Insts |-> NoMsg]
           /\ ctxDestroys' = ctxDestroys + 1
           /\ context' = "terminated"
    /\ Returned("closeEvent", "", None)
    /\ UNCHANGED <<processes, poller, mainpc, mainSock, mainReq, nextInst, slotErrors>>
    /\ UNCHANGED <<monProcesses, newProcessQ, termQ>>

\* AppManager.closeEvent(a0)
closeEvent ==
    /\ CanCall
    /\ LET procs == {processes[i].process : i \in DOMAIN processes}
           socks == {processes[i].socket : i \in DOMAIN processes}
       IN  \* if self.procmon is not None: self.procmon.quit(); ... = None
           /\ IF procmon # "None"
              THEN ProcessMonitor_quit /\ procmon' = "None"
              ELSE UNCHANGED <<checking, procmon>>
           \* if self.procmonThread is not None: quit(); wait(); ... = None
           /\ IF procmonThread # "None"
              THEN monThread' = "finished" /\ procmonThread' = "None"
              ELSE UNCHANGED <<monThread, procmonThread>>
           \* for Id, data in self.processes.items(): process.close(); socket.close(1)
           /\ procCloses' = [k \in Insts |-> procCloses[k] + IF k \in procs THEN 1 ELSE 0]
           /\ pstate' = [k \in Insts |-> IF k \in procs THEN NotRunning ELSE pstate[k]]
           /\ AppsGone({k \in procs : pstate[k] # NotRunning})
           /\ sockCloses' = [k \in Insts |-> sockCloses[k] + IF k \in socks THEN 1 ELSE 0]
           \* self.context.destroy(1): closes every socket of the context
           /\ sockOpen' = [k \in Insts |-> FALSE]
           /\ wireReq' = [k \in Insts |-> NoMsg]
           /\ wireResp' = [k \in Insts |-> NoMsg]
           /\ ctxDestroys' = ctxDestroys + 1
           /\ context' = "terminated"
    /\ Returned("closeEvent", "", None)
    /\ UNCHANGED <<processes, poller, mainpc, mainSock, mainReq, nextInst, slotErrors>>
    /\ UNCHANGED <<monProcesses, newProcessQ, termQ>>

\* -------------------------------------------------------- ProcessMonitor
\* ProcessMonitor.onNewProcess(Id, process): slot of AppManager.newProcess, run
\* by the monitor thread when it processes events (the qtsleep of run).
onNewProcess ==
    /\ monThread = "running"
    /\ newProcessQ # <<>>
    /\ LET Id == Head(newProcessQ)[1]
           process == Head(newProcessQ)[2]
       IN  monProcesses' = DictSet(monProcesses, Id, process)
    /\ newProcessQ' = Tail(newProcessQ)
    /\ UNCHANGED <<checking, monThread, termQ>>
    /\ UNCHANGED <<mgrVars, hdlVars, appVars>>

\* A scan that reports a terminated process and keeps tracking it.
ProcessMonitor_run_keep(Id) ==
    /\ monThread = "running"
    /\ checking
    /\ Id \in DOMAIN monProcesses
    /\ pstate[monProcesses[Id]] = NotRunning
    /\ termQ' = Append(termQ, Id)
    /\ UNCHANGED <<monProcesses, checking, monThread, newProcessQ>>
    /\ UNCHANGED <<mgrVars, hdlVars, appVars>>

\* A scan that reports a terminated process twice.
ProcessMonitor_run_emitTwice(Id) ==
    /\ monThread = "running"
    /\ checking
    /\ Id \in DOMAIN monProcesses
    /\ pstate[monProcesses[Id]] = NotRunning
    /\ monProcesses' = DictDel(monProcesses, Id)
    /\ termQ' = termQ \o <<Id, Id>>
    /\ UNCHANGED <<checking, monThread, newProcessQ>>
    /\ UNCHANGED <<mgrVars, hdlVars, appVars>>

\* ProcessMonitor.run: the loop body for one entry of processesCopy.
ProcessMonitor_run(Id) ==
    /\ monThread = "running"
    /\ checking
    /\ Id \in DOMAIN monProcesses
    /\ pstate[monProcesses[Id]] = NotRunning
    /\ monProcesses' = DictDel(monProcesses, Id)
    /\ termQ' = Append(termQ, Id)
    /\ UNCHANGED <<checking, monThread, newProcessQ>>
    /\ UNCHANGED <<mgrVars, hdlVars, appVars>>

\* ------------------------------------------------------- the app process
Spawned(k) == k \in Insts /\ k < nextInst

\* The spawned interpreter comes up: QProcess goes from Starting to Running.
ProcStarted(k) ==
    /\ Spawned(k)
    /\ pstate[k] = Starting
    /\ pstate' = [pstate EXCEPT ![k] = Running]
    /\ UNCHANGED <<sockOpen, procCloses, sockCloses, ctxDestroys, wireReq, wireResp>>
    /\ UNCHANGED <<mgrVars, monVars, appVars>>

\* The app process ends (it failed to open the app, was killed, or its event
\* loop returned): QProcess goes to NotRunning, the process's state is lost.
ProcExit(k) ==
    /\ Spawned(k)
    /\ pstate[k] # NotRunning
    /\ pstate' = [pstate EXCEPT ![k] = NotRunning]
    /\ AppsGone({k})
    /\ UNCHANGED <<sockOpen, procCloses, sockCloses, ctxDestroys, wireReq, wireResp>>
    /\ UNCHANGED <<mgrVars, monVars>>

\* App.__init__ and AppServer.__init__, then AppServer.run up to its loop:
\* the listener is bound and polls.
App_init(k) ==
    /\ Spawned(k)
    /\ pstate[k] = Running
    /\ apppc[k] = "none"
    /\ apppc' = [apppc EXCEPT ![k] = "run"]
    /\ srvpc' = [srvpc EXCEPT ![k] = "poll"]
    /\ running' = [running EXCEPT ![k] = TRUE]
    /\ reply' = [reply EXCEPT ![k] = None]
    /\ UNCHANGED <<interruption, msgQ, replyQ, quitQ, fcInput, nodeAttrs>>
    /\ UNCHANGED <<mgrVars, monVars, hdlVars>>

\* The end of one pass of AppServer.run's loop:
\* if self.thread().isInterruptionRequested(): self.running = False
EndOfPass(k) == [running EXCEPT ![k] = IF interruption[k] THEN FALSE ELSE @]

\* A listener without the 'ping' fast path: every payload goes to the
\* dispatcher.
AppServer_run_recv_noPing(k) ==
    /\ srvpc[k] = "poll"
    /\ running[k]
    /\ wireReq[k] # NoMsg
    /\ wireReq' = [wireReq EXCEPT ![k] = NoMsg]
    /\ msgQ' = [msgQ EXCEPT ![k] = wireReq[k]]
    /\ srvpc' = [srvpc EXCEPT ![k] = "waitReply"]
    /\ UNCHANGED <<wireResp, running>>
    /\ UNCHANGED <<apppc, reply, interruption, replyQ, quitQ, fcInput, nodeAttrs>>
    /\ UNCHANGED <<pstate, sockOpen, procCloses, sockCloses, ctxDestroys>>
    /\ UNCHANGED <<mgrVars, monVars>>

\* AppServer.run: a pass that finds a message. 'ping' is answered at once;
\* anything else is emitted as messageReceived and the loop waits for the reply.
AppServer_run_recv(k) ==
    /\ srvpc[k] = "poll"
    /\ running[k]
    /\ wireReq[k] # NoMsg
    /\ wireReq' = [wireReq EXCEPT ![k] = NoMsg]
    /\ IF wireReq[k] = Ping
       THEN /\ wireResp' = [wireResp EXCEPT ![k] = Pong]
            /\ running' = EndOfPass(k)
            /\ UNCHANGED <<srvpc, msgQ>>
       ELSE /\ msgQ' = [msgQ EXCEPT ![k] = wireReq[k]]
            /\ srvpc' = [srvpc EXCEPT ![k] = "waitReply"]
            /\ UNCHANGED <<wireResp, running>>
    /\ UNCHANGED <<apppc, reply, interruption, replyQ, quitQ, fcInput, nodeAttrs>>
    /\ UNCHANGED <<pstate, sockOpen, procCloses, sockCloses, ctxDestroys>>
    /\ UNCHANGED <<mgrVars, monVars>>

\* A listener that sends the reply and leaves it in the slot.
AppServer_run_reply_keepSlot(k) ==
    /\ srvpc[k] = "waitReply"
    /\ reply[k] # None
    /\ wireResp' = [wireResp EXCEPT ![k] = reply[k]]
    /\ srvpc' = [srvpc EXCEPT ![k] = "poll"]
    /\ running' = EndOfPass(k)
    /\ UNCHANGED <<apppc, reply, interruption, msgQ, replyQ, quitQ, fcInput, nodeAttrs>>
    /\ UNCHANGED <<pstate, sockOpen, procCloses, sockCloses, ctxDestroys, wireReq>>
    /\ UNCHANGED <<mgrVars, monVars>>

\* AppServer.run: while self.reply is None: qtsleep(0.01) has ended;
\* self.socket.send_pyobj(self.reply); self.reply = None
AppServer_run_reply(k) ==
    /\ srvpc[k] = "waitReply"
    /\ reply[k] # None
    /\ wireResp' = [wireResp EXCEPT ![k] = reply[k]]
    /\ reply' = [reply EXCEPT ![k] = None]
    /\ srvpc' = [srvpc EXCEPT ![k] = "poll"]
    /\ running' = EndOfPass(k)
    /\ UNCHANGED <<apppc, interruption, msgQ, replyQ, quitQ, fcInput, nodeAttrs>>
    /\ UNCHANGED <<pstate, sockOpen, procCloses, sockCloses, ctxDestroys, wireReq>>
    /\ UNCHANGED <<mgrVars, monVars>>

\* AppServer.run: a pass whose poll times out, with an interruption requested.
AppServer_run_timeout(k) ==
    /\ srvpc[k] = "poll"
    /\ running[k]
    /\ interruption[k]
    /\ running' = EndOfPass(k)
    /\ UNCHANGED <<apppc, srvpc, reply, interruption, msgQ, replyQ, quitQ, fcInput, nodeAttrs>>
    /\ UNCHANGED <<mgrVars, monVars, hdlVars>>

\* AppServer.run: while self.running fails; self.socket.close(1)
AppServer_run_exit(k) ==
    /\ srvpc[k] = "poll"
    /\ ~running[k]
    /\ srvpc' = [srvpc EXCEPT ![k] = "closed"]
    /\ UNCHANGED <<apppc, running, reply, interruption, msgQ, replyQ, quitQ, fcInput, nodeAttrs>>
    /\ UNCHANGED <<mgrVars, monVars, hdlVars>>

\* AppServer.run once App.onQuit has destroyed the context, which closes the
\* listener's socket under it: poll and send_pyobj raise ZMQError out of run.
\* The exception either ends the process or is dropped, ending run without
\* its own socket.close(1).
AppServer_run_zmqError(k) ==
    /\ apppc[k] = "joining"
    /\ \/ srvpc[k] = "poll" /\ running[k]
       \/ srvpc[k] = "waitReply" /\ reply[k] # None
    /\ \/ /\ pstate' = [pstate EXCEPT ![k] = NotRunning]
          /\ AppsGone({k})
       \/ /\ srvpc' = [srvpc EXCEPT ![k] = "closed"]
          /\ UNCHANGED <<apppc, running, reply, interruption, msgQ, replyQ, quitQ,
                         fcInput, nodeAttrs, pstate>>
    /\ UNCHANGED <<sockOpen, procCloses, sockCloses, ctxDestroys, wireReq, wireResp>>
    /\ UNCHANGED <<mgrVars, monVars>>

\* AppServer.quit(): slot of App.endProcess, run in a qtsleep of the listener.
AppServer_quit(k) ==
    /\ srvpc[k] \in {"poll", "waitReply"}
    /\ quitQ[k]
    /\ quitQ' = [quitQ EXCEPT ![k] = FALSE]
    /\ running' = [running EXCEPT ![k] = FALSE]
    /\ UNCHANGED <<apppc, srvpc, reply, interruption, msgQ, replyQ, fcInput, nodeAttrs>>
    /\ UNCHANGED <<mgrVars, monVars, hdlVars>>

\* AppServer.loadReply(reply): slot of App.replyReady, run in a qtsleep of the
\* listener.
AppServer_loadReply(k) ==
    /\ srvpc[k] \in {"poll", "waitReply"}
    /\ replyQ[k] # <<>>
    /\ reply' = [reply EXCEPT ![k] = Head(replyQ[k])]
    /\ replyQ' = [replyQ EXCEPT ![k] = Tail(@)]
    /\ UNCHANGED <<apppc, srvpc, running, interruption, msgQ, quitQ, fcInput, nodeAttrs>>
    /\ UNCHANGED <<mgrVars, monVars, hdlVars>>

\* ------------------------------------------------------------------- App
\* self.fc.setInput(**value): unpacking an object that is no mapping raises
\* TypeError, a key that is no input terminal raises KeyError; otherwise the
\* input is set and the call returns None.
FcSetInput(value, fcIn) ==
    IF value[1] # "dict" THEN [raises |-> "TypeError", ret |-> None, fcInput |-> fcIn]
    ELSE IF value[2] # "dataIn" THEN [raises |-> "KeyError", ret |-> None, fcInput |-> fcIn]
    ELSE [raises |-> "", ret |-> None, fcInput |-> value[3]]

\* A node branch without the try: a missing node or a property that cannot
\* be set raises out of the slot.
SetNodeProperty_noTry(targetName, targetProperty, value, attrs) ==
    IF targetName \notin NodeNames
    THEN [raises |-> "KeyError", reply |-> None, nodeAttrs |-> attrs]
    ELSE IF targetProperty = "readonly"
    THEN [raises |-> "AttributeError", reply |-> None, nodeAttrs |-> attrs]
    ELSE [raises |-> "", reply |-> True,
          nodeAttrs |-> DictSet(attrs, targetProperty, value)]

\* try: node = self.fc.nodes()[targetName]; setattr(node, targetProperty, value);
\*      reply = True
\* except Exception as e: reply = e
SetNodeProperty(targetName, targetProperty, value, attrs) ==
    IF targetName \notin NodeNames
    THEN [raises |-> "", reply |-> Exc("KeyError"), nodeAttrs |-> attrs]
    ELSE IF targetProperty = "readonly"
    THEN [raises |-> "", reply |-> Exc("AttributeError"), nodeAttrs |-> attrs]
    ELSE [raises |-> "", reply |-> True,
          nodeAttrs |-> DictSet(attrs, targetProperty, value)]

\* A dispatcher that raises the ValueError for an unsupported flowchart
\* property instead of replying with it.
Dispatch_raiseUnsupported(msg, fcIn, attrs) ==
    LET targetName == msg[2]
        targetProperty == msg[3]
        value == msg[4]
    IN  IF targetName \in FlowchartNames
        THEN IF targetProperty = "setInput"
             THEN LET r == FcSetInput(value, fcIn)
                  IN  [raises |-> r.raises, reply |-> r.ret,
                       fcInput |-> r.fcInput, nodeAttrs |-> attrs]
             ELSE IF targetProperty = "getOutput"
             THEN [raises |-> "", reply |-> OutputValues(fcIn),
                   fcInput |-> fcIn, nodeAttrs |-> attrs]
             ELSE [raises |-> "ValueError", reply |-> None,
                   fcInput |-> fcIn, nodeAttrs |-> attrs]
        ELSE LET r == SetNodeProperty(targetName, targetProperty, value, attrs)
             IN  [raises |-> r.raises, reply |-> r.reply,
                  fcInput |-> fcIn, nodeAttrs |-> r.nodeAttrs]

\* App.onMessageReceived(message) as a function of the message and the app's
\* state: the exception that escapes it ("" when none), the reply it emits
\* with replyReady, and the state it leaves.
Dispatch(msg, fcIn, attrs) ==
    LET targetName == msg[2]
        targetProperty == msg[3]
        value == msg[4]
    IN  IF targetName \in FlowchartNames
        THEN IF targetProperty = "setInput"
             THEN LET r == FcSetInput(value, fcIn)
                  IN  [raises |-> r.raises, reply |-> r.ret,
                       fcInput |-> r.fcInput, nodeAttrs |-> attrs]
             ELSE IF targetProperty = "getOutput"
             THEN [raises |-> "", reply |-> OutputValues(fcIn),
                   fcInput |-> fcIn, nodeAttrs |-> attrs]
             ELSE [raises |-> "", reply |-> Exc("ValueError"),
                   fcInput |-> fcIn, nodeAttrs |-> attrs]
        ELSE LET r == SetNodeProperty(targetName, targetProperty, value, attrs)
             IN  [raises |-> r.raises, reply |-> r.reply,
                  fcInput |-> fcIn, nodeAttrs |-> r.nodeAttrs]

\* App.onMessageReceived(message): slot of AppServer.messageReceived, run by the
\* app's main thread.  An exception that escapes a slot either ends the
\* process (PyQt5 aborts on an unhandled exception in a slot) or is printed
\* and dropped (an excepthook is installed, or the binding is PySide).
App_onMessageReceived(k) ==
    /\ apppc[k] = "run"
    /\ msgQ[k] # NoMsg
    /\ LET d == Dispatch(msgQ[k], fcInput[k], nodeAttrs[k])
       IN  IF d.raises = ""
           THEN /\ replyQ' = [replyQ EXCEPT ![k] = Append(@, d.reply)]
                /\ msgQ' = [msgQ EXCEPT ![k] = NoMsg]
                /\ fcInput' = [fcInput EXCEPT ![k] = d.fcInput]
                /\ nodeAttrs' = [nodeAttrs EXCEPT ![k] = d.nodeAttrs]
                /\ UNCHANGED <<apppc, srvpc, running, reply, interruption, quitQ, pstate>>
           ELSE \/ /\ pstate' = [pstate EXCEPT ![k] = NotRunning]
                   /\ AppsGone({k})
                \/ /\ msgQ' = [msgQ EXCEPT ![k] = NoMsg]
                   /\ UNCHANGED <<apppc, srvpc, running, reply, interruption, replyQ,
                                  quitQ, fcInput, nodeAttrs, pstate>>
    /\ UNCHANGED <<sockOpen, procCloses, sockCloses, ctxDestroys, wireReq, wireResp>>
    /\ UNCHANGED <<mgrVars, monVars>>

\* App.onQuit(), up to self.serverThread.wait(): slot of win.windowClosed.
\* self.endProcess.emit() is queued for the listener; self.context.destroy(1)
\* closes the listener's socket (see AppServer_run_zmqError).
App_onQuit(k) ==
    /\ apppc[k] = "run"
    /\ quitQ' = [quitQ EXCEPT ![k] = TRUE]
    /\ interruption' = [interruption EXCEPT ![k] = TRUE]
    /\ apppc' = [apppc EXCEPT ![k] = "joining"]
    /\ UNCHANGED <<srvpc, running, reply, msgQ, replyQ, fcInput, nodeAttrs>>
    /\ UNCHANGED <<mgrVars, monVars, hdlVars>>

\* App.onQuit() from self.serverThread.wait() on: the listener thread is done.
App_onQuit_return(k) ==
    /\ apppc[k] = "joining"
    /\ srvpc[k] = "closed"
    /\ apppc' = [apppc EXCEPT ![k] = "quit"]
    /\ srvpc' = [srvpc EXCEPT ![k] = "None"]
    /\ UNCHANGED <<running, reply, interruption, msgQ, replyQ, quitQ, fcInput, nodeAttrs>>
    /\ UNCHANGED <<mgrVars, monVars, hdlVars>>

\* ------------------------------------------------------------------ Spec
\* The processes themselves, and the part of the app that answers a ping.
ProcessSteps ==
    \/ \E k \in Insts : ProcStarted(k)
    \/ \E k \in Insts : ProcExit(k)
    \/ \E k \in Insts : App_init(k)
    \/ \E k \in Insts : AppServer_run_recv(k)

\* The manager's two threads.
ManagerSteps ==
    \/ onProcessEneded
    \/ onNewProcess
    \/ \E Id \in Ids : ProcessMonitor_run(Id)
    \/ pingApp_return
    \/ closeEvent

\* The manager with its monitor and the processes of several apps: the caller
\* launches and pings apps and tears the manager down.
Next ==
    \/ \E Id \in Ids : launchApp(Id)
    \/ \E Id \in Ids : pingApp(Id)
    \/ ManagerSteps
    \/ ProcessSteps

Spec == Init /\ [][Next]_vars

\* One app with the manager: the caller launches app "a" only, and pings and
\* messages it (and ids that were never launched); the app's window may be
\* closed at any time.
NextApp ==
    \/ ncalls < MaxAppCalls /\ launchApp("a")
    \/ \E Id \in Ids : ncalls < MaxAppCalls /\ pingApp(Id)
    \/ \E Id \in Ids, n \in TargetNames, p \in TargetProperties, v \in Values :
          ncalls < MaxAppCalls /\ message(Id, n, p, v)
    \/ message_return
    \/ ManagerSteps
    \/ ProcessSteps
    \/ \E k \in Insts : AppServer_run_reply(k)
    \/ \E k \in Insts : AppServer_run_timeout(k)
    \/ \E k \in Insts : AppServer_run_exit(k)
    \/ \E k \in Insts : AppServer_run_zmqError(k)
    \/ \E k \in Insts : AppServer_quit(k)
    \/ \E k \in Insts : AppServer_loadReply(k)
    \/ \E k \in Insts : App_onMessageReceived(k)
    \/ \E k \in Insts : App_onQuit(k)
    \/ \E k \in Insts : App_onQuit_return(k)

SpecApp == Init /\ [][NextApp]_vars

\* Scheduling: the monitor thread's loop and event processing keep running
\* until it is stopped, the main thread's event loop runs a queued slot when
\* the thread is idle, a blocked call returns once its reply is there, and a
\* live app process keeps executing.
Fairness ==
    /\ SF_vars(onProcessEneded)
    /\ WF_vars(onNewProcess)
    /\ \A Id \in Ids : WF_vars(ProcessMonitor_run(Id))
    /\ WF_vars(pingApp_return)
    /\ \A k \in Insts : WF_vars(App_init(k)) /\ WF_vars(AppServer_run_recv(k))

FairSpec == Spec /\ Fairness

\* The same for the app's two threads: the listener's loop and the slots run
\* in its sleeps, and the dispatcher slot in the app's main thread.
FairnessApp ==
    /\ Fairness
    /\ WF_vars(message_return)
    /\ \A k \in Insts :
          /\ WF_vars(AppServer_run_reply(k))
          /\ WF_vars(AppServer_run_timeout(k))
          /\ WF_vars(AppServer_run_exit(k))
          /\ WF_vars(AppServer_quit(k))
          /\ WF_vars(AppServer_loadReply(k))
          /\ WF_vars(App_onMessageReceived(k))
          /\ WF_vars(App_onQuit_return(k))

FairSpecApp == SpecApp /\ FairnessApp

\* ---------------------------------------------------------------- claims
\* A launch step: the table gains a record.
Launched(Id) == Id \notin DOMAIN processes /\ Id \in DOMAIN processes'

\* p is the lowest integer >= initialPort that no record of table holds.
LowestFree(p, table) ==
    /\ p >= initialPort
    /\ p \notin UsedPorts(table)
    /\ \A q \in initialPort..(p - 1) : q \in UsedPorts(table)

PortsDistinct ==
    \A i, j \in DOMAIN processes : i # j => processes[i].port # processes[j].port

\* C1: in every reachable state the ports of the records in the process table
\* are pairwise distinct, and every launchApp that adds a record gives it the
\* lowest integer >= initialPort that no record held at the moment of the call.
C1_PortsDistinctLowestFree ==
    /\ []PortsDistinct
    /\ [][\A Id \in Ids : Launched(Id) => LowestFree(processes'[Id].port, processes)]_vars

\* C1 witness: "a" was launched again after its first process was reaped
\* while "b" held the second port, and got the first port back.
C1_Witness ==
    /\ DOMAIN processes = {"a", "b"}
    /\ processes["a"].port = initialPort
    /\ processes["b"].port = initialPort + 1
    /\ processes["a"].process > processes["b"].process

\* The process of the record with id X has terminated.
Terminated(X) == X \in DOMAIN processes /\ pstate[processes[X].process] = NotRunning

\* A step that removes X's record leaves its port free for the next launch:
\* what launchApp would hand out next is X's former port or a lower one.
ReapFreesPort ==
    \A X \in DOMAIN processes \ DOMAIN processes' :
        FirstFreePort(initialPort, UsedPorts(processes')) <= processes[X].port

Called(op) == ncalls' = ncalls + 1 /\ lastCall'.op = op

\* Everything but the record of the last call.
allButCall ==
    <<processes, context, poller, procmon, procmonThread, mainpc, mainSock, mainReq,
      nextInst, slotErrors, monVars, hdlVars, appVars>>

\* C3: launchApp with an id that is in the process table returns False and
\* changes nothing (no process, no port, no socket, no newProcess signal, the
\* record untouched); a launchApp that returns True has added the one record
\* of its id, so a second call with that id finds it and returns False.
C3_DuplicateLaunchRejected ==
    [][Called("launchApp") =>
         /\ lastCall'.Id \in DOMAIN processes =>
               lastCall'.val = False /\ UNCHANGED allButCall
         /\ lastCall'.val = True =>
               /\ lastCall'.Id \notin DOMAIN processes
               /\ DOMAIN processes' = DOMAIN processes \cup {lastCall'.Id}]_vars

\* C3 witness: two calls with the same id, the second one rejected, one
\* process spawned.
C3_Witness ==
    /\ lastCall = [op |-> "launchApp", Id |-> "a", val |-> False]
    /\ ncalls = 2
    /\ nextInst = 2
    /\ DOMAIN processes = {"a"}

\* The app of launch k is alive and its listener awaits a request.
Listening(k) == pstate[k] = Running /\ srvpc[k] = "poll" /\ running[k]

PingReturnedTrue ==
    mainpc = "idle" /\ lastCall.op = "pingApp" /\ lastCall.val = True

\* C4: pingApp with an id that is not in the process table returns False and
\* changes nothing: nothing is sent, the main thread does not block, the table
\* is as before.  A pingApp that returns from a tracked app returns True, and
\* one sent to an app that is alive and listening does return, unless the app
\* stops listening first.
C4_PingUnknownFalseLiveTrue ==
    /\ [][Called("pingApp") /\ lastCall'.Id \notin DOMAIN processes =>
            lastCall'.val = False /\ UNCHANGED allButCall]_vars
    /\ [][mainpc = "pingApp" /\ mainpc' = "idle" => lastCall'.val = True]_vars
    /\ \A k \in Insts :
          (mainpc = "pingApp" /\ mainSock = k /\ Listening(k))
              ~> (PingReturnedTrue \/ ~Listening(k))

\* C4 witness: a ping of the unknown id "b" returned False while the app of
\* "a" is alive and listening and nothing is on its wire.
C4_Witness ==
    /\ lastCall = [op |-> "pingApp", Id |-> "b", val |-> False]
    /\ DOMAIN processes = {"a"}
    /\ Listening(processes["a"].process)
    /\ wireReq[processes["a"].socket] = NoMsg
    /\ mainpc = "idle"

\* C5: message with an id that is not in the process table raises ValueError
\* to its caller (it returns no value), sends nothing on any socket, and
\* leaves the process table and the state of every app as they were.
C5_MessageUnknownRaises ==
    [][Called("message") /\ lastCall'.Id \notin DOMAIN processes =>
         lastCall'.val = Raised("ValueError") /\ UNCHANGED allButCall]_vars

\* C5 witness: a message to the unknown id "b" raised while the app of "a" is
\* alive and listening.
C5_Witness ==
    /\ lastCall = [op |-> "message", Id |-> "b", val |-> Raised("ValueError")]
    /\ DOMAIN processes = {"a"}
    /\ Listening(processes["a"].process)
    /\ mainpc = "idle"

\* The request names neither the flowchart nor one of its nodes.
UnknownNode(req) ==
    req # NoMsg /\ req[1] = "tuple" /\ req[2] \notin FlowchartNames \cup NodeNames

\* The request of the blocked call, or its reply, is somewhere between the
\* manager's socket and the app: on the wire, queued for the dispatcher,
\* queued for the listener, in the listener's reply slot, or on the wire back.
InPipeline(k) ==
    \/ wireReq[k] # NoMsg
    \/ msgQ[k] # NoMsg
    \/ replyQ[k] # <<>>
    \/ reply[k] # None
    \/ wireResp[k] # NoMsg

\* The listener of app k awaits a request, with nothing left of the last one.
AwaitingRequest(k) ==
    /\ srvpc[k] = "poll"
    /\ running[k]
    /\ reply[k] = None
    /\ msgQ[k] = NoMsg
    /\ replyQ[k] = <<>>

\* C6: a message to a live app whose targetName names neither the flowchart
\* nor a node is never lost on its way, comes back to the caller of message as
\* an exception object that message returns (it does not raise), and at that
\* return the app's listener is back awaiting the next request.
C6_UnknownNodeFailureReturned ==
    /\ [](\A k \in Insts :
            mainpc = "message" /\ mainSock = k /\ UnknownNode(mainReq)
                /\ apppc[k] = "run" => InPipeline(k))
    /\ [][\A k \in Insts :
            mainpc = "message" /\ mainSock = k /\ mainpc' = "idle"
                /\ UnknownNode(mainReq) =>
              /\ IsException(lastCall'.val)
              /\ apppc'[k] = "run" => AwaitingRequest(k)']_vars

\* C6 witness: the message to a missing node has returned the KeyError and the
\* app is alive, its listener awaiting the next request.
C6_Witness ==
    /\ lastCall = [op |-> "message", Id |-> "a", val |-> Exc("KeyError")]
    /\ mainpc = "idle"
    /\ "a" \in DOMAIN processes
    /\ apppc[processes["a"].process] = "run"
    /\ AwaitingRequest(processes["a"].process)

\* The manager is blocked in a message call to app k whose request the
\* dispatcher answers without raising, and the app's window is open.
AnswerableRequest(k) ==
    /\ mainpc = "message"
    /\ mainSock = k
    /\ mainReq # NoMsg
    /\ mainReq[1] = "tuple"
    /\ apppc[k] = "run"
    /\ Dispatch(mainReq, fcInput[k], nodeAttrs[k]).raises = ""

\* C7: every request the app's listener has accepted is eventually answered,
\* whatever reply the dispatcher produces for it (None included): the listener
\* does not stay forever waiting for its reply slot to be filled, and the
\* manager's blocked message call returns (unless the app's window is closed
\* or its process ends first).
C7_AcceptedEventuallyAnswered ==
    \A k \in Insts :
        (srvpc[k] = "waitReply" /\ AnswerableRequest(k))
            ~> (srvpc[k] # "waitReply" \/ mainpc = "idle" \/ apppc[k] # "run")

\* C8: command dispatch is total: whatever request the dispatcher is handed, it
\* finishes by emitting a reply, a normal value or an exception object, and no
\* exception escapes it.
C8_DispatchTotal ==
    \A k \in Insts :
        msgQ[k] # NoMsg =>
            LET d == Dispatch(msgQ[k], fcInput[k], nodeAttrs[k])
            IN  /\ d.raises = ""
                /\ d.reply \in {True, None} \cup {OutputValues(x) : x \in Data \cup {"none"}}
                                \cup {Exc(t) : t \in {"KeyError", "ValueError",
                                                      "AttributeError", "TypeError"}}

\* message(Id, "", "setInput", {"dataIn": d}) and message(Id, "", "getOutput", v)
SetInputRequest(d) == Request("", "setInput", <<"dict", "dataIn", d>>)
IsGetOutput(req) ==
    req # NoMsg /\ req[1] = "tuple" /\ req[2] = "" /\ req[3] = "getOutput"

\* C9: on a launched app, message(Id, "", "setInput", {"dataIn": d}) returns,
\* and a getOutput call that follows it returns the output for the input d
\* that was set, for every d of Data.
C9_SetThenGetObservesSet ==
    /\ \A k \in Insts, d \in Data :
           (mainpc = "message" /\ mainSock = k /\ mainReq = SetInputRequest(d)
                /\ apppc[k] = "run")
               ~> (mainpc = "idle" \/ apppc[k] # "run")
    /\ [][\A k \in Insts, d \in Data :
            mainpc = "message" /\ mainSock = k /\ mainpc' = "idle"
                /\ IsGetOutput(mainReq) /\ fcInput[k] = d =>
              lastCall'.val = OutputValues(d)]_vars

\* C10: closeEvent closes the process handle and the socket of every record
\* of the table exactly once, and a second closeEvent closes no process
\* handle, no socket and no context again.
C10_TeardownOnceAndIdempotent ==
    [][Called("closeEvent") =>
         IF context = "open"
         THEN \A Id \in DOMAIN processes :
                  /\ procCloses'[processes[Id].process] = 1
                  /\ sockCloses'[processes[Id].socket] = 1
         ELSE UNCHANGED <<procCloses, sockCloses, ctxDestroys>>]_vars

\* C11: once closeEvent has destroyed the context, a further launchApp,
\* pingApp or message, for any id, is rejected or does nothing: it spawns no
\* process, opens no socket on the destroyed context and sends on no socket.
C11_NoEffectAfterTeardown ==
    [][context = "terminated" /\ ncalls' = ncalls + 1
           /\ lastCall'.op \in {"launchApp", "pingApp", "message"} =>
         /\ nextInst' = nextInst
         /\ pstate' = pstate
         /\ sockOpen' = sockOpen
         /\ wireReq' = wireReq]_vars

\* The listener of app k takes the payload 'ping' off its socket.
PingReceived(k) ==
    /\ srvpc[k] = "poll"
    /\ wireReq[k] = Ping
    /\ wireReq'[k] = NoMsg
    /\ srvpc'[k] # "gone"

\* C12: when the listener receives 'ping' it replies 'pong' itself and stays
\* in its loop: no messageReceived is emitted, the flowchart and node state
\* are unchanged, and the reply slot and the queue of replies are untouched.
C12_PingBypassesDispatcher ==
    [][\A k \in Insts :
         PingReceived(k) =>
           /\ wireResp'[k] = Pong
           /\ srvpc'[k] = "poll"
           /\ UNCHANGED <<msgQ, replyQ, reply, fcInput, nodeAttrs, apppc>>]_vars

\* C12 witness: the app of "a", whose node has an attribute set by an earlier
\* message, has answered the manager's ping with 'pong'.
C12_Witness ==
    /\ mainpc = "pingApp"
    /\ wireResp[mainSock] = Pong
    /\ srvpc[mainSock] = "poll"
    /\ reply[mainSock] = None
    /\ nodeAttrs[mainSock] # EmptyDict

\* How many replies of app k are pending: being dispatched, queued for the
\* listener, in the reply slot, or on the wire back to the manager.
Pending(k) ==
    (IF msgQ[k] # NoMsg THEN 1 ELSE 0) + Len(replyQ[k])
        + (IF reply[k] # None THEN 1 ELSE 0) + (IF wireResp[k] # NoMsg THEN 1 ELSE 0)

\* C13: per app, requests and replies alternate and at most one reply is
\* pending: a listener that awaits a request has an empty reply slot and no
\* dispatch outstanding, no new request is on its way while one is being
\* handled, and the value a message call returns is the reply the dispatcher
\* produces for that call's own request.
C13_RequestsRepliesAlternate ==
    /\ [](\A k \in Insts :
            /\ srvpc[k] = "poll" =>
                  reply[k] = None /\ msgQ[k] = NoMsg /\ replyQ[k] = <<>>
            /\ Pending(k) <= 1
            /\ wireReq[k] # NoMsg => Pending(k) = 0 /\ srvpc[k] # "waitReply")
    /\ [][\A k \in Insts :
            mainpc = "message" /\ mainSock = k /\ mainpc' = "idle" =>
              lastCall'.val = Dispatch(mainReq, fcInput[k], nodeAttrs[k]).reply]_vars

\* C13 witness: the second message to the app of "a" has returned its own
\* reply, a KeyError, after a first message that was answered True.
C13_Witness ==
    /\ lastCall = [op |-> "message", Id |-> "a", val |-> Exc("KeyError")]
    /\ mainpc = "idle"
    /\ ncalls = 3
    /\ "a" \in DOMAIN processes
    /\ nodeAttrs[processes["a"].process] # EmptyDict
    /\ srvpc[processes["a"].process] = "poll"

\* C14: once the quit signal is sent and the interruption of the listener's
\* thread is requested, the listener eventually leaves its loop and ends
\* with its socket closed, whatever it was doing at that moment - also while
\* a dispatched request has not produced its reply yet (or the whole process
\* ends first).
C14_ListenerEventuallyTerminates ==
    \A k \in Insts :
        interruption[k] ~> srvpc[k] \in {"closed", "None", "gone"}

\* The monitor is running its loop.
Monitoring == monThread = "running" /\ checking

\* C15: while the monitor runs, every registered app whose process is
\* terminated is eventually dropped from the monitor's table, and dropping it
\* and emitting processTerminated with its id are one and the same step: one
\* notification per registration, none for a process that has not terminated,
\* and a registration is never replaced before it was reported.
C15_OneNotificationPerTermination ==
    /\ [][/\ Len(termQ') > Len(termQ) =>
               \E Id \in DOMAIN monProcesses :
                  /\ pstate[monProcesses[Id]] = NotRunning
                  /\ termQ' = Append(termQ, Id)
                  /\ monProcesses' = DictDel(monProcesses, Id)
          /\ \A Id \in DOMAIN monProcesses :
                IF Id \in DOMAIN monProcesses'
                THEN monProcesses'[Id] = monProcesses[Id]
                ELSE termQ' = Append(termQ, Id)]_vars
    /\ \A Id \in Ids :
          (Id \in DOMAIN monProcesses /\ pstate[monProcesses[Id]] = NotRunning)
              ~> (Id \notin DOMAIN monProcesses \/ ~Monitoring)

\* C15 witness: the process of "a" has terminated and been reported once, the
\* monitor no longer tracks it and still runs, while the live app "b" is
\* tracked and unreported.
C15_Witness ==
    /\ termQ = <<"a">>
    /\ "a" \notin DOMAIN monProcesses
    /\ "b" \in DOMAIN monProcesses
    /\ pstate[monProcesses["b"]] = Running
    /\ Monitoring

\* C16: a record's socket goes with the record: in every state, every socket
\* that is open or registered with the manager's poller is the socket of a
\* record of the process table.
C16_EndpointsBelongToRecords ==
    \A k \in Insts :
        sockOpen[k] \/ k \in poller =>
            \E Id \in DOMAIN processes : processes[Id].socket = k

\* C17: once closeEvent has completed, the process table holds no record, and
\* the process handle and the socket of every record it held are closed.
C17_TeardownRemovesRecords ==
    context = "terminated" =>
        /\ processes = EmptyDict
        /\ \A k \in Insts : ~sockOpen[k]
        /\ \A Id \in DOMAIN processes :
              /\ procCloses[processes[Id].process] >= 1
              /\ sockCloses[processes[Id].socket] >= 1

UnsupportedFlowchartProperty(req) ==
    /\ req # NoMsg
    /\ req[1] = "tuple"
    /\ req[2] \in FlowchartNames
    /\ req[3] \notin {"setInput", "getOutput"}

NeverStarted(Id) == Terminated(Id) /\ apppc[processes[Id].process] = "none"

\* A launchApp(Id) step for an id that has no record returns True and inserts
\* a record with the newly spawned process and the lowest free port.
LaunchInserts(Id) ==
    Called("launchApp") /\ lastCall'.Id = Id /\ Id \notin DOMAIN processes =>
        /\ lastCall'.val = True
        /\ Id \in DOMAIN processes'
        /\ processes'[Id].process = nextInst
        /\ LowestFree(processes'[Id].port, processes)

Notified == {termQ[i] : i \in 1..Len(termQ)}

\* C21: under every interleaving of the main thread and the monitor thread,
\* the ids the monitor tracks are ids of the process table, with the same
\* process; every queued notification names an id that is in the table, whose
\* record holds the terminated process that was reported, so onProcessEneded
\* never raises KeyError; and a record stays as it is until it is removed, so
\* a notification for an earlier worker never removes the record of a later
\* worker with the same id.
C21_MonitorIdsInTable ==
    /\ [](/\ DOMAIN monProcesses \subseteq DOMAIN processes
          /\ \A Id \in DOMAIN monProcesses : monProcesses[Id] = processes[Id].process
          /\ Notified \subseteq DOMAIN processes \ DOMAIN monProcesses
          /\ \A i, j \in 1..Len(termQ) : i # j => termQ[i] # termQ[j]
          /\ \A Id \in Notified : pstate[processes[Id].process] = NotRunning
          /\ slotErrors = 0)
    /\ [][/\ \A Id \in DOMAIN processes \cap DOMAIN processes' :
                processes'[Id] = processes[Id]
          /\ \A Id \in DOMAIN processes \ DOMAIN processes' :
                /\ termQ # <<>> /\ Head(termQ) = Id /\ termQ' = Tail(termQ)
                /\ pstate[processes[Id].process] = NotRunning]_vars

\* C21 witness: the first worker "a" terminated, was reported and removed;
\* a later worker launched with the same id "a" is alive, in the table and
\* tracked by the monitor, and no removal has failed.
C21_Witness ==
    /\ "a" \in DOMAIN processes
    /\ processes["a"].process = 2
    /\ pstate[1] = NotRunning
    /\ pstate[2] = Running
    /\ "a" \in DOMAIN monProcesses
    /\ monProcesses["a"] = 2
    /\ termQ = <<>>
    /\ slotErrors = 0
    /\ Monitoring

====
